---- MODULE Spec2Model ----
(***************************************************************************)
(* Model of the fixed-size memory pool allocator of src/allocator.c.       *)
(*                                                                         *)
(* The allocator state is the three file-scope statics node_pool,          *)
(* head_index and full_taken plus the alloc_node_t table that              *)
(* ensure_node_pool overlays on the first NODE_POOL_BYTES bytes of         *)
(* g_mem.raw.  allocate and deallocate are translated statement by         *)
(* statement into operators over a record of these four fields; the two    *)
(* actions Allocate and Deallocate apply them to inputs drawn from small   *)
(* sets.  Pointers are absolute byte addresses; uint32_t arithmetic is     *)
(* taken modulo 2^WORD_BITS.                                               *)
(*                                                                         *)
(* MAX_NODES is scaled down from the 96 of the source so that the          *)
(* metadata ceiling is reached; TOTAL_MEMORY and sizeof(alloc_node_t)      *)
(* keep their values.                                                      *)
(***************************************************************************)
EXTENDS Integers, FiniteSets, Sequences, TLC

(* ------------------------------------------------------------------ *)
(* Configuration constants                                             *)
(* ------------------------------------------------------------------ *)

\* #define TOTAL_MEMORY (100u * 1024u)
TOTAL_MEMORY == 102400

\* #define MAX_NODES 96, scaled down
MAX_NODES == 3

\* sizeof(alloc_node_t): two uint32_t and one int32_t
SIZEOF_NODE == 12

\* sizeof(int), the alignment the documentation of allocate promises
SIZEOF_INT == 4

\* width in bits of int, int32_t and uint32_t.  The source's 32 is scaled
\* down because TLC's integers end at 2^31 - 1; the unsigned type still
\* holds twice the range of the signed one, so every sum of the code wraps
\* in the model exactly when it wraps in the program.
WORD_BITS == 24

UINT_MOD == 2 ^ WORD_BITS

INT_MAX == 2 ^ (WORD_BITS - 1) - 1

\* U32 one bit narrower, the range of the signed type
U32_narrow(x) == x % (INT_MAX + 1)

\* (uint32_t) conversion and uint32_t arithmetic
U32(x) == x % UINT_MOD

\* #define NODE_POOL_BYTES ((uint32_t)(MAX_NODES * (uint32_t)sizeof(alloc_node_t)))
NODE_POOL_BYTES == U32(MAX_NODES * SIZEOF_NODE)

\* the null pointer
NULL == 0

\* address of g_mem.raw[0]; the linker chooses it, aligned for max_align_t
g_mem_raw == 65536

USABLE_BASE == NODE_POOL_BYTES
USABLE_LIMIT == TOTAL_MEMORY

(* ------------------------------------------------------------------ *)
(* State                                                               *)
(* ------------------------------------------------------------------ *)

VARIABLES
    g_mem,       \* the alloc_node_t table at the front of g_mem.raw
    node_pool,   \* NULL, or g_mem_raw when the table is carved
    head_index,  \* first slot of the sorted list, -1 when empty
    full_taken,  \* 1 while the whole pool is handed out as one block
    live,        \* history: blocks returned by allocate, not yet passed to deallocate
    last,        \* history: the last call, its result and the state before it
    stale,       \* history: one address that was returned and then freed
    thr          \* the allocate calls in flight when calls are split in two steps

vars == <<g_mem, node_pool, head_index, full_taken, live, last, stale, thr>>

Slots == 0 .. (MAX_NODES - 1)

\* the allocator's own state as one value
State == [g_mem |-> g_mem, node_pool |-> node_pool,
          head_index |-> head_index, full_taken |-> full_taken]

(* ------------------------------------------------------------------ *)
(* Internal helpers                                                    *)
(* ------------------------------------------------------------------ *)

\* ensure_node_pool without the early return for a table already carved
ensure_node_pool_again(s) ==
    IF s.full_taken # 0 THEN s
    ELSE IF NODE_POOL_BYTES >= TOTAL_MEMORY THEN s
    ELSE [s EXCEPT !.node_pool = g_mem_raw,
                   !.g_mem = [i \in Slots |-> [offset |-> 0, size |-> 0, next |-> -1]],
                   !.head_index = -1]

\* ensure_node_pool clearing the slots to all-zero bytes
ensure_node_pool_zeroed(s) ==
    IF s.node_pool # NULL THEN s
    ELSE IF s.full_taken # 0 THEN s
    ELSE IF NODE_POOL_BYTES >= TOTAL_MEMORY THEN s
    ELSE [s EXCEPT !.node_pool = g_mem_raw,
                   !.g_mem = [i \in Slots |-> [offset |-> 0, size |-> 0, next |-> 0]],
                   !.head_index = -1]

\* static void ensure_node_pool(void)
ensure_node_pool(s) ==
    IF s.node_pool # NULL THEN s
    ELSE IF s.full_taken # 0 THEN s
    ELSE IF NODE_POOL_BYTES >= TOTAL_MEMORY THEN s
    ELSE [s EXCEPT !.node_pool = g_mem_raw,
                   !.g_mem = [i \in Slots |-> [offset |-> 0, size |-> 0, next |-> -1]],
                   !.head_index = -1]

RECURSIVE slot_scan(_, _)
slot_scan(s, i) ==
    IF i >= MAX_NODES THEN -1
    ELSE IF s.g_mem[i].size = 0 THEN i
    ELSE slot_scan(s, i + 1)

\* static int32_t node_slot_alloc(void)
node_slot_alloc(s) == slot_scan(s, 0)

\* the while loop of list_insert_sorted: the slot after which idx is linked
RECURSIVE insert_scan(_, _, _)
insert_scan(s, idx, prev) ==
    IF s.g_mem[prev].next # -1
       /\ s.g_mem[s.g_mem[prev].next].offset < s.g_mem[idx].offset
    THEN insert_scan(s, idx, s.g_mem[prev].next)
    ELSE prev

\* list_insert_sorted that always links the new slot at the head
list_insert_front(s, idx) ==
    [s EXCEPT !.g_mem[idx].next = s.head_index,
              !.head_index = idx]

\* static void list_insert_sorted(int32_t idx)
list_insert_sorted(s, idx) ==
    IF s.head_index = -1 \/ s.g_mem[idx].offset < s.g_mem[s.head_index].offset
    THEN [s EXCEPT !.g_mem[idx].next = s.head_index,
                   !.head_index = idx]
    ELSE LET prev == insert_scan(s, idx, s.head_index)
         IN  [s EXCEPT !.g_mem[idx].next = s.g_mem[prev].next,
                       !.g_mem[prev].next = idx]

\* the while loop of list_remove_by_offset
RECURSIVE remove_scan(_, _, _, _)
remove_scan(s, off, prev, cur) ==
    IF cur = -1 THEN [s |-> s, idx |-> -1]
    ELSE IF s.g_mem[cur].offset = off
    THEN LET u == IF prev = -1
                  THEN [s EXCEPT !.head_index = s.g_mem[cur].next]
                  ELSE [s EXCEPT !.g_mem[prev].next = s.g_mem[cur].next]
         IN  [s |-> [u EXCEPT !.g_mem[cur].next = -1], idx |-> cur]
    ELSE remove_scan(s, off, cur, s.g_mem[cur].next)

\* static int32_t list_remove_by_offset(uint32_t off)
list_remove_by_offset(s, off) == remove_scan(s, off, -1, s.head_index)

\* try_uncarve_when_empty that never releases the table
try_uncarve_never(s) == s

\* static void try_uncarve_when_empty(void)
try_uncarve_when_empty(s) ==
    IF s.head_index # -1 THEN s
    ELSE [s EXCEPT !.node_pool = NULL]

(* ------------------------------------------------------------------ *)
(* Public API                                                          *)
(* ------------------------------------------------------------------ *)

\* place with the test of node_slot_alloc's result forgotten
place_unchecked(s, off, req) ==
    LET idx == node_slot_alloc(s)
    IN  IF idx < 0 THEN [s |-> s, ret |-> g_mem_raw + off]
        ELSE LET t == [s EXCEPT !.g_mem[idx].offset = off,
                                !.g_mem[idx].size = req]
             IN  [s |-> list_insert_sorted(t, idx),
                  ret |-> g_mem_raw + off]

\* the common tail of the three placement cases of allocate:
\* take a slot, fill it, link it, return the block's address
place(s, off, req) ==
    LET idx == node_slot_alloc(s)
    IN  IF idx < 0 THEN [s |-> s, ret |-> NULL]
        ELSE LET t == [s EXCEPT !.g_mem[idx].offset = off,
                                !.g_mem[idx].size = req]
             IN  [s |-> list_insert_sorted(t, idx),
                  ret |-> g_mem_raw + off]

\* gap_fits with > for >=
gap_fits_strict(gap_start, gap_end, req) ==
    gap_end > gap_start /\ U32(gap_end - gap_start) > req

\* gap_fits with the length comparison forgotten
gap_fits_any(gap_start, gap_end, req) ==
    gap_end > gap_start

\* the gap test of Case 3
gap_fits(gap_start, gap_end, req) ==
    gap_end > gap_start /\ U32(gap_end - gap_start) >= req

\* Case 3 of allocate: the for loop over the gaps after each block
RECURSIVE gap_scan(_, _, _)
gap_scan(s, req, cur) ==
    IF cur = -1 THEN [s |-> s, ret |-> NULL]
    ELSE LET nxt == s.g_mem[cur].next
             gap_start == U32(s.g_mem[cur].offset + s.g_mem[cur].size)
             gap_end == IF nxt = -1 THEN USABLE_LIMIT ELSE s.g_mem[nxt].offset
         IN  IF gap_fits(gap_start, gap_end, req)
             THEN place(s, gap_start, req)
             ELSE gap_scan(s, req, nxt)

\* allocate_full without the test that the table is not carved
allocate_full_carved(s) ==
    IF s.full_taken # 0 \/ s.head_index # -1
    THEN [s |-> s, ret |-> NULL]
    ELSE [s |-> [s EXCEPT !.full_taken = 1], ret |-> g_mem_raw]

\* the whole-pool special case of allocate
allocate_full(s) ==
    IF s.full_taken # 0 \/ s.node_pool # NULL \/ s.head_index # -1
    THEN [s |-> s, ret |-> NULL]
    ELSE [s |-> [s EXCEPT !.full_taken = 1], ret |-> g_mem_raw]

\* allocate_tracked without Case 2, the gap before the first block
allocate_tracked_nofront(s, req) ==
    IF s.head_index = -1
    THEN IF U32(USABLE_BASE + req) <= USABLE_LIMIT
         THEN place(s, USABLE_BASE, req)
         ELSE [s |-> s, ret |-> NULL]
    ELSE gap_scan(s, req, s.head_index)

\* allocate_tracked with USABLE_BASE left out of the Case 1 test
allocate_tracked_nobase(s, req) ==
    IF s.head_index = -1
    THEN IF req <= USABLE_LIMIT
         THEN place(s, USABLE_BASE, req)
         ELSE [s |-> s, ret |-> NULL]
    ELSE IF s.g_mem[s.head_index].offset >= U32(USABLE_BASE + req)
         THEN place(s, USABLE_BASE, req)
         ELSE gap_scan(s, req, s.head_index)

\* allocate_tracked with < for <= in Case 1
allocate_tracked_strict(s, req) ==
    IF s.head_index = -1
    THEN IF U32(USABLE_BASE + req) < USABLE_LIMIT
         THEN place(s, USABLE_BASE, req)
         ELSE [s |-> s, ret |-> NULL]
    ELSE IF s.g_mem[s.head_index].offset >= U32(USABLE_BASE + req)
         THEN place(s, USABLE_BASE, req)
         ELSE gap_scan(s, req, s.head_index)

\* allocate after the table is carved: Cases 1, 2 and 3
allocate_tracked(s, req) ==
    IF s.head_index = -1
    THEN IF U32(USABLE_BASE + req) <= USABLE_LIMIT
         THEN place(s, USABLE_BASE, req)
         ELSE [s |-> s, ret |-> NULL]
    ELSE IF s.g_mem[s.head_index].offset >= U32(USABLE_BASE + req)
         THEN place(s, USABLE_BASE, req)
         ELSE gap_scan(s, req, s.head_index)

\* invalid_size with < for <=
invalid_size_negative(size) == size < 0

\* the argument check of allocate
invalid_size(size) == size <= 0

\* int *allocate(int size)
allocate(s, size) ==
    IF invalid_size(size) THEN [s |-> s, ret |-> NULL]
    ELSE LET req == U32(size)
         IN  IF req = TOTAL_MEMORY THEN allocate_full(s)
             ELSE IF s.full_taken # 0 THEN [s |-> s, ret |-> NULL]
             ELSE LET c == ensure_node_pool(s)
                  IN  IF c.node_pool = NULL THEN [s |-> c, ret |-> NULL]
                      ELSE allocate_tracked(c, req)

\* ptr_offset counted in whole ints, as (uint32_t)(ptr - (int*)g_mem.raw) * sizeof(int)
ptr_offset_ints(ptr) ==
    U32(ptr - g_mem_raw) - (U32(ptr - g_mem_raw) % SIZEOF_INT)

\* (uint32_t)(p - g_mem.raw)
ptr_offset(ptr) == U32(ptr - g_mem_raw)

\* release_slot that leaves the size in place
release_slot_leak(s, idx) ==
    [s EXCEPT !.g_mem[idx].offset = 0]

\* deallocate: "Mark slot as free"
release_slot(s, idx) ==
    [s EXCEPT !.g_mem[idx].size = 0,
              !.g_mem[idx].offset = 0]

\* void deallocate(int *ptr)
deallocate(s, ptr) ==
    IF ptr = NULL THEN s
    ELSE IF ptr < g_mem_raw \/ ptr >= g_mem_raw + TOTAL_MEMORY THEN s
    ELSE IF s.full_taken # 0 /\ ptr = g_mem_raw
    THEN [s EXCEPT !.full_taken = 0]
    ELSE IF s.node_pool = NULL THEN s
    ELSE LET off == ptr_offset(ptr)
             r == list_remove_by_offset(s, off)
         IN  IF r.idx < 0 THEN s
             ELSE LET t == release_slot(r.s, r.idx)
                  IN  IF t.head_index = -1
                      THEN try_uncarve_when_empty(t)
                      ELSE t

(* ------------------------------------------------------------------ *)
(* The callers: inputs, history and the two actions                    *)
(* ------------------------------------------------------------------ *)

\* width of the usable window [USABLE_BASE, USABLE_LIMIT)
USABLE_BYTES == USABLE_LIMIT - USABLE_BASE

\* requested sizes: invalid, small (unaligned and aligned), window-filling,
\* too large, the whole pool, and the largest int
Sizes == {-5, 0, 1, 2, USABLE_BYTES - 2, USABLE_BYTES, USABLE_BYTES + 1,
          TOTAL_MEMORY, INT_MAX}

\* the whole-pool block as a caller sees it
WholeBlock == [offset |-> 0, size |-> TOTAL_MEMORY]

\* pointers passed to deallocate: null, just outside the pool at both ends,
\* the pool's base, inside the table region, the window's first byte,
\* every live block's start and, for blocks longer than a byte, its first
\* interior byte, and the pointer of the previous deallocate call once more
Ptrs == {NULL, g_mem_raw - 1, g_mem_raw + TOTAL_MEMORY, g_mem_raw,
         g_mem_raw + SIZEOF_NODE, g_mem_raw + USABLE_BASE}
        \cup {g_mem_raw + b.offset : b \in live}
        \cup {g_mem_raw + b.offset + 1 : b \in {c \in live : c.size > 1}}
        \cup (IF last.op = "deallocate" THEN {last.arg} ELSE {})

\* what the history keeps of the state before a call
Snapshot == [state |-> State, live |-> live]

\* no address remembered
NoStale == [addr |-> NULL, reissued |-> FALSE, hit |-> "none"]

\* the callers that may have an allocate call in flight
Threads == {1, 2}

\* no call in flight
NoCall == [pc |-> "idle", size |-> 0, off |-> 0]

\* no call in flight in any caller; locking tells whether the callers
\* serialise their calls with a lock of their own
AllIdle(locking) ==
    [locking |-> locking, owner |-> 0, call |-> [t \in Threads |-> NoCall]]

\* static zero-initialised g_mem; node_pool = NULL, head_index = -1, full_taken = 0
InitAllocator ==
    /\ g_mem = [i \in Slots |-> [offset |-> 0, size |-> 0, next |-> 0]]
    /\ node_pool = NULL
    /\ head_index = -1
    /\ full_taken = 0
    /\ live = {}
    /\ last = [op |-> "none", arg |-> 0, ret |-> NULL,
               pre |-> [state |-> [g_mem |-> [i \in Slots |-> [offset |-> 0, size |-> 0, next |-> 0]],
                                   node_pool |-> NULL, head_index |-> -1, full_taken |-> 0],
                        live |-> {}]]

Init ==
    /\ InitAllocator
    /\ stale = NoStale
    /\ thr = AllIdle(FALSE)

Install(s) ==
    /\ g_mem' = s.g_mem
    /\ node_pool' = s.node_pool
    /\ head_index' = s.head_index
    /\ full_taken' = s.full_taken

\* a caller runs allocate(size) to completion
Allocate(size) ==
    \E r \in {allocate(State, size)} :
        /\ Install(r.s)
        /\ live' = IF r.ret = NULL THEN live
                   ELSE live \cup {[offset |-> r.ret - g_mem_raw, size |-> size]}
        /\ last' = [op |-> "allocate", arg |-> size, ret |-> r.ret, pre |-> Snapshot]

\* a caller runs deallocate(ptr) to completion
Deallocate(ptr) ==
    \E d \in {deallocate(State, ptr)} :
        /\ Install(d)
        /\ live' = {b \in live : g_mem_raw + b.offset # ptr}
        /\ last' = [op |-> "deallocate", arg |-> ptr, ret |-> NULL, pre |-> Snapshot]

\* one caller, every call run to completion
Next ==
    \/ \E size \in Sizes : Allocate(size) /\ UNCHANGED <<stale, thr>>
    \/ \E ptr \in Ptrs : Deallocate(ptr) /\ UNCHANGED <<stale, thr>>

Spec == Init /\ [][Next]_vars

(* ------------------------------------------------------------------ *)
(* Vocabulary of the properties                                        *)
(* ------------------------------------------------------------------ *)

\* the address a caller holds for a block
Addr(b) == g_mem_raw + b.offset

\* two byte ranges [offset, offset + size) share no byte
Disjoint(a, b) ==
    a.offset + a.size <= b.offset \/ b.offset + b.size <= a.offset

\* the last call was allocate / deallocate
WasAllocate == last.op = "allocate"
WasDeallocate == last.op = "deallocate"

\* the last call left the allocator's state and the live blocks as they were
NothingChanged == State = last.pre.state /\ live = last.pre.live

\* the block the last allocate call handed out
NewBlock == [offset |-> last.ret - g_mem_raw, size |-> last.arg]

\* the blocks the last deallocate call was handed
Released == {b \in last.pre.live : Addr(b) = last.arg}

(* ------------------------------------------------------------------ *)
(* C1                                                                  *)
(* ------------------------------------------------------------------ *)

\* C1: no two distinct live blocks (the whole-pool block included) share a
\* byte, and a block just handed out shares no byte with any block that
\* was live before the call.
C1_NoOverlap ==
    /\ \A a \in live : \A b \in live : a # b => Disjoint(a, b)
    /\ (WasAllocate /\ last.ret # NULL) =>
           \A b \in last.pre.live : Disjoint(NewBlock, b)

\* a block was placed in the gap between two live blocks
C1_Witness ==
    /\ WasAllocate /\ last.ret # NULL
    /\ \E a \in last.pre.live : a.offset < NewBlock.offset
    /\ \E b \in last.pre.live : b.offset > NewBlock.offset

(* ------------------------------------------------------------------ *)
(* C2                                                                  *)
(* ------------------------------------------------------------------ *)

\* C2: every address allocate returns lies a multiple of sizeof(int)
\* bytes above the pool's base.
C2_Aligned ==
    (WasAllocate /\ last.ret # NULL) =>
        (last.ret - g_mem_raw) % SIZEOF_INT = 0

(* ------------------------------------------------------------------ *)
(* C3                                                                  *)
(* ------------------------------------------------------------------ *)

\* C3: an allocate(TOTAL_MEMORY) call made while no block is outstanding
\* succeeds and returns the pool's base.
C3_WholeAfterRelease ==
    (WasAllocate /\ last.arg = TOTAL_MEMORY /\ last.pre.live = {}) =>
        last.ret = g_mem_raw

(* ------------------------------------------------------------------ *)
(* C4                                                                  *)
(* ------------------------------------------------------------------ *)

\* C4: while full_taken is set the list is empty and the table is not
\* carved; and allocate(TOTAL_MEMORY) fails and changes nothing when the
\* flag is set, the table is carved or a block is live.
C4_WholeExclusive ==
    /\ full_taken # 0 => (head_index = -1 /\ node_pool = NULL)
    /\ ( /\ WasAllocate /\ last.arg = TOTAL_MEMORY
         /\ \/ last.pre.state.full_taken # 0
            \/ last.pre.state.node_pool # NULL
            \/ last.pre.state.head_index # -1
            \/ last.pre.live # {} )
       => (last.ret = NULL /\ NothingChanged)

\* allocate(TOTAL_MEMORY) was refused because the table was carved although
\* the flag was clear
C4_Witness ==
    /\ WasAllocate /\ last.arg = TOTAL_MEMORY /\ last.ret = NULL
    /\ last.pre.state.full_taken = 0
    /\ last.pre.state.node_pool # NULL

(* ------------------------------------------------------------------ *)
(* C5                                                                  *)
(* ------------------------------------------------------------------ *)

\* the sizes the window can hold
WindowSizes == {size \in Sizes : 0 < size /\ size <= TOTAL_MEMORY - NODE_POOL_BYTES}

\* C5: a successful allocate(TOTAL_MEMORY) sets the flag; while it is set
\* every allocate call fails and changes nothing and only deallocate of the
\* pool's base clears it; right after that deallocate, allocate of any size
\* the window can hold succeeds.
C5_ExhaustThenRecover ==
    /\ (WasAllocate /\ last.arg = TOTAL_MEMORY /\ last.ret # NULL) => full_taken # 0
    /\ (WasAllocate /\ last.pre.state.full_taken # 0) =>
           (last.ret = NULL /\ NothingChanged)
    /\ (WasDeallocate /\ last.pre.state.full_taken # 0 /\ last.arg # g_mem_raw) =>
           full_taken # 0
    /\ (WasDeallocate /\ last.pre.state.full_taken # 0 /\ last.arg = g_mem_raw) =>
           /\ full_taken = 0
           /\ \A size \in WindowSizes : allocate(State, size).ret # NULL

\* the whole-pool block was just given back
C5_Witness ==
    /\ WasDeallocate /\ last.pre.state.full_taken # 0 /\ last.arg = g_mem_raw
    /\ WholeBlock \in last.pre.live
    /\ live = {}

(* ------------------------------------------------------------------ *)
(* Gaps of the usable window, computed from the live blocks alone      *)
(* ------------------------------------------------------------------ *)

Min(S) == CHOOSE x \in S : \A y \in S : x <= y

\* where a gap can start: the window's start or the end of a live block
GapStarts(B) == {USABLE_BASE} \cup {b.offset + b.size : b \in B}

\* where the free range starting at g ends: the next live block or the window's end
NextStart(B, g) == Min({b.offset : b \in {c \in B : c.offset >= g}} \cup {USABLE_LIMIT})

GapLength(B, g) == NextStart(B, g) - g

\* the gap starts at which a block of the given size fits
FittingGaps(B, size) == {g \in GapStarts(B) : GapLength(B, g) >= size}

(* ------------------------------------------------------------------ *)
(* C6                                                                  *)
(* ------------------------------------------------------------------ *)

\* first fit: a successful allocate(size), size # TOTAL_MEMORY, returns the
\* lowest gap start at which size bytes are free
FirstFit ==
    (WasAllocate /\ last.ret # NULL /\ last.arg # TOTAL_MEMORY) =>
        /\ FittingGaps(last.pre.live, last.arg) # {}
        /\ NewBlock.offset = Min(FittingGaps(last.pre.live, last.arg))

\* the sizes no larger than block b
SizesUpTo(b) == {size \in Sizes : 0 < size /\ size <= b.size}

\* C6 as claimed: first fit, and right after any block was freed no
\* allocate of a size up to the freed block's returns an address above the
\* freed block's.
C6_FirstFitReuseAnyBlock ==
    /\ FirstFit
    /\ WasDeallocate =>
           \A b \in Released : \A size \in SizesUpTo(b) :
               LET r == allocate(State, size)
               IN  r.ret # NULL => r.ret <= Addr(b)

\* C6 amended: first fit, and right after a block other than the
\* whole-pool block was freed every allocate of a size up to the freed
\* block's succeeds at an address not above the freed block's.
C6_FirstFitReuse ==
    /\ FirstFit
    /\ (WasDeallocate /\ last.pre.state.full_taken = 0) =>
           \A b \in Released : \A size \in SizesUpTo(b) :
               LET r == allocate(State, size)
               IN  r.ret # NULL /\ r.ret <= Addr(b)

\* a block in front of a live block was freed, and a smaller request fits its gap
C6_Witness ==
    /\ WasDeallocate /\ last.pre.state.full_taken = 0
    /\ \E b \in Released :
           /\ \E c \in live : c.offset > b.offset
           /\ \E size \in SizesUpTo(b) :
                  size < b.size /\ allocate(State, size).ret = Addr(b)

(* ------------------------------------------------------------------ *)
(* C7                                                                  *)
(* ------------------------------------------------------------------ *)

\* C7: with the flag clear and 0 < size < TOTAL_MEMORY, allocate(size)
\* succeeds exactly when some gap between consecutive live blocks or the
\* window's edges holds size bytes and fewer than MAX_NODES blocks are live.
C7_FailureCauses ==
    (WasAllocate /\ 0 < last.arg /\ last.arg < TOTAL_MEMORY
        /\ last.pre.state.full_taken = 0) =>
        (last.ret # NULL <=>
            /\ FittingGaps(last.pre.live, last.arg) # {}
            /\ Cardinality(last.pre.live) < MAX_NODES)

\* a request failed for want of a gap although a slot was free and two
\* separate free bytes remained in front of and behind a live block
C7_Witness ==
    /\ WasAllocate /\ last.arg = 2 /\ last.ret = NULL
    /\ last.pre.state.full_taken = 0
    /\ Cardinality(last.pre.live) < MAX_NODES
    /\ Cardinality({g \in GapStarts(last.pre.live) : GapLength(last.pre.live, g) = 1}) >= 2

(* ------------------------------------------------------------------ *)
(* C8                                                                  *)
(* ------------------------------------------------------------------ *)

\* the live blocks other than the whole-pool block
Tracked(B) == B \ {WholeBlock}

\* C8: never more than MAX_NODES tracked blocks are live, and with exactly
\* MAX_NODES live every allocate call returns NULL and changes nothing.
C8_MetadataCeiling ==
    /\ Cardinality(Tracked(live)) <= MAX_NODES
    /\ (WasAllocate /\ Cardinality(Tracked(last.pre.live)) = MAX_NODES) =>
           (last.ret = NULL /\ NothingChanged)

\* a one-byte request was refused with MAX_NODES blocks live although a gap held it
C8_Witness ==
    /\ WasAllocate /\ last.arg = 1 /\ last.ret = NULL
    /\ Cardinality(Tracked(last.pre.live)) = MAX_NODES
    /\ FittingGaps(last.pre.live, 1) # {}

(* ------------------------------------------------------------------ *)
(* C9                                                                  *)
(* ------------------------------------------------------------------ *)

\* C9: allocate(size) with size <= 0 returns NULL and leaves full_taken,
\* node_pool, head_index and every record as they were.
C9_InvalidSizeNoOp ==
    (WasAllocate /\ last.arg <= 0) => (last.ret = NULL /\ NothingChanged)

\* a non-positive request reached an allocator whose table was not carved
C9_Witness ==
    /\ WasAllocate /\ last.arg <= 0
    /\ last.pre.state.node_pool = NULL /\ last.pre.state.full_taken = 0
    /\ node_pool = NULL

(* ------------------------------------------------------------------ *)
(* C10                                                                 *)
(* ------------------------------------------------------------------ *)

\* the pointer is null, outside the pool, or not the start of a live block
NotABlock(ptr, B) ==
    \/ ptr = NULL
    \/ ptr < g_mem_raw
    \/ ptr >= g_mem_raw + TOTAL_MEMORY
    \/ \A b \in B : Addr(b) # ptr

\* C10: deallocate of a pointer that is null, outside the pool or not the
\* start of a live block changes nothing, the pool's base while full_taken
\* is set excepted.
C10_InvalidFreeNoOp ==
    (WasDeallocate /\ NotABlock(last.arg, last.pre.live)
        /\ ~(last.pre.state.full_taken # 0 /\ last.arg = g_mem_raw)) =>
        NothingChanged

\* deallocate was handed a pointer into the interior of a live block
C10_Witness ==
    /\ WasDeallocate
    /\ last.pre.state.node_pool # NULL
    /\ \E b \in last.pre.live :
           Addr(b) < last.arg /\ last.arg < Addr(b) + b.size

(* ------------------------------------------------------------------ *)
(* The list as the code walks it                                       *)
(* ------------------------------------------------------------------ *)

\* the slots met by following next from cur, at most fuel of them
RECURSIVE ChainFrom(_, _, _)
ChainFrom(s, cur, fuel) ==
    IF cur = -1 \/ fuel = 0 THEN <<>>
    ELSE <<cur>> \o ChainFrom(s, s.g_mem[cur].next, fuel - 1)

\* the slots linked from head_index, in list order
Chain(s) == ChainFrom(s, s.head_index, MAX_NODES + 1)

\* the (offset, size) pairs of the linked records, in list order
ChainBlocks(s) ==
    LET c == Chain(s)
    IN  [i \in 1 .. Len(c) |-> [offset |-> s.g_mem[c[i]].offset,
                                size |-> s.g_mem[c[i]].size]]

\* the elements of a sequence as a set
Range(q) == {q[i] : i \in 1 .. Len(q)}

\* sequence q without its elements of the given offset
WithoutOffset(q, off) == SelectSeq(q, LAMBDA b : b.offset # off)

(* ------------------------------------------------------------------ *)
(* C12                                                                 *)
(* ------------------------------------------------------------------ *)

\* C12: while the table is carved, the records linked from head_index
\* come in strictly increasing offset order.
C12_SortedIndex ==
    node_pool # NULL =>
        LET q == ChainBlocks(State)
        IN  \A i \in 1 .. Len(q) : \A j \in 1 .. Len(q) :
                i < j => q[i].offset < q[j].offset

\* allocate linked a new record between two older ones
C12_Witness ==
    /\ WasAllocate /\ last.ret # NULL /\ node_pool # NULL
    /\ LET q == ChainBlocks(State)
       IN  /\ Len(q) >= 3
           /\ \E i \in 2 .. Len(q) - 1 : q[i] = NewBlock

(* ------------------------------------------------------------------ *)
(* C13                                                                 *)
(* ------------------------------------------------------------------ *)

\* the state with the table freshly carved, as ensure_node_pool leaves it
FreshlyCarved(s) ==
    [s EXCEPT !.node_pool = g_mem_raw,
              !.g_mem = [i \in Slots |-> [offset |-> 0, size |-> 0, next |-> -1]],
              !.head_index = -1]

\* C13: a failed allocate leaves full_taken and the live blocks (their
\* offsets and sizes) as they were; it changes nothing at all, or carves
\* a table that was not carved.
C13_FailedAllocateFrame ==
    (WasAllocate /\ last.ret = NULL) =>
        /\ full_taken = last.pre.state.full_taken
        /\ live = last.pre.live
        /\ ChainBlocks(State) = ChainBlocks(last.pre.state)
        /\ \/ State = last.pre.state
           \/ /\ last.pre.state.node_pool = NULL
              /\ State = FreshlyCarved(last.pre.state)

\* a request failed for want of space while blocks were live
C13_Witness ==
    /\ WasAllocate /\ last.ret = NULL /\ last.arg > 0
    /\ last.arg # TOTAL_MEMORY
    /\ Len(ChainBlocks(last.pre.state)) >= 2

(* ------------------------------------------------------------------ *)
(* C14                                                                 *)
(* ------------------------------------------------------------------ *)

\* block b lies inside the usable window
InWindow(b) == USABLE_BASE <= b.offset /\ b.offset + b.size <= TOTAL_MEMORY

\* C14: while the table is carved every live block, as the callers hold
\* it and as the table records it, lies inside [USABLE_BASE, TOTAL_MEMORY).
C14_BlocksInWindow ==
    node_pool # NULL =>
        /\ \A b \in live : InWindow(b)
        /\ \A b \in Range(ChainBlocks(State)) : InWindow(b)

\* the window is filled from its first to its last byte
C14_Witness ==
    /\ node_pool # NULL
    /\ \E b \in live : b.offset = USABLE_BASE
    /\ \E b \in live : b.offset + b.size = TOTAL_MEMORY
    /\ Cardinality(live) >= 2

(* ------------------------------------------------------------------ *)
(* C15                                                                 *)
(* ------------------------------------------------------------------ *)

\* C15: a deallocate that removes the last live block leaves the table
\* un-carved with an empty list; a deallocate that leaves a block live
\* leaves a carved table carved.
C15_TableRelease ==
    /\ (WasDeallocate /\ Released # {} /\ live = {}) =>
           (node_pool = NULL /\ head_index = -1)
    /\ (WasDeallocate /\ live # {} /\ last.pre.state.node_pool # NULL) =>
           node_pool # NULL

\* the last tracked block was freed and the carved table was released
C15_Witness ==
    /\ WasDeallocate /\ Released # {} /\ live = {}
    /\ last.pre.state.node_pool # NULL
    /\ node_pool = NULL

(* ------------------------------------------------------------------ *)
(* C16                                                                 *)
(* ------------------------------------------------------------------ *)

\* the slots of state s whose record starts at the given offset
SlotsAt(s, off) == {i \in Range(Chain(s)) : s.g_mem[i].offset = off}

\* C16: deallocate of the start of a live tracked block removes that
\* record and no other: the list is the old list without it, in the old
\* order, and the record's slot has size 0.
C16_RemovesExactlyOne ==
    (WasDeallocate /\ Released # {} /\ last.pre.state.full_taken = 0) =>
        LET off == last.arg - g_mem_raw
        IN  /\ ChainBlocks(State) = WithoutOffset(ChainBlocks(last.pre.state), off)
            /\ Len(ChainBlocks(State)) = Len(ChainBlocks(last.pre.state)) - 1
            /\ \A i \in SlotsAt(last.pre.state, off) : g_mem[i].size = 0

\* the middle one of three blocks was freed
C16_Witness ==
    /\ WasDeallocate /\ Released # {} /\ last.pre.state.full_taken = 0
    /\ \E b \in live : b.offset < last.arg - g_mem_raw
    /\ \E b \in live : b.offset > last.arg - g_mem_raw

(* ------------------------------------------------------------------ *)
(* C18                                                                 *)
(* ------------------------------------------------------------------ *)

\* C18: while the table is carved, the list reaches -1 within MAX_NODES
\* steps without meeting a slot twice, the slots it meets are the slots of
\* size # 0, and every slot of size 0 has next = -1.
C18_SlotListConsistent ==
    node_pool # NULL =>
        LET c == Chain(State)
        IN  /\ Len(c) <= MAX_NODES
            /\ \A i \in 1 .. Len(c) : \A j \in 1 .. Len(c) : i # j => c[i] # c[j]
            /\ Range(c) = {i \in Slots : g_mem[i].size # 0}
            /\ \A i \in Slots : g_mem[i].size = 0 => g_mem[i].next = -1

\* a slot freed earlier sits unused between two used ones
C18_Witness ==
    /\ node_pool # NULL
    /\ WasDeallocate /\ Released # {}
    /\ \E i \in Slots : \E j \in Slots : \E k \in Slots :
           /\ i < j /\ j < k
           /\ g_mem[i].size # 0 /\ g_mem[j].size = 0 /\ g_mem[k].size # 0

(* ------------------------------------------------------------------ *)
(* C19                                                                 *)
(* ------------------------------------------------------------------ *)

\* C19: allocate fails for every size above the window's width other than
\* TOTAL_MEMORY, up to INT_MAX; the sums USABLE_BASE + req and
\* offset + size of the code stay below the unsigned type's modulus.
C19_NoWraparound ==
    /\ (WasAllocate /\ last.arg > TOTAL_MEMORY - NODE_POOL_BYTES
           /\ last.arg # TOTAL_MEMORY) => last.ret = NULL
    /\ (WasAllocate /\ last.arg > 0) => USABLE_BASE + last.arg < UINT_MOD
    /\ \A i \in Slots : g_mem[i].offset + g_mem[i].size < UINT_MOD

\* allocate(INT_MAX) was refused by a carved allocator holding a block
C19_Witness ==
    /\ WasAllocate /\ last.arg = INT_MAX /\ last.ret = NULL
    /\ last.pre.state.head_index # -1

(* ------------------------------------------------------------------ *)
(* C20                                                                 *)
(* ------------------------------------------------------------------ *)

\* C20: after a successful allocate(size) = p, deallocate(p) restores
\* full_taken and the linked records (offset, size, in list order) of
\* before the allocate, and allocate(size) then returns p again.
C20_RoundTrip ==
    (WasAllocate /\ last.ret # NULL) =>
        LET d == deallocate(State, last.ret)
        IN  /\ d.full_taken = last.pre.state.full_taken
            /\ ChainBlocks(d) = ChainBlocks(last.pre.state)
            /\ allocate(d, last.arg).ret = last.ret

\* allocate filled the last free slot, in a gap between two blocks
C20_Witness ==
    /\ WasAllocate /\ last.ret # NULL
    /\ Len(ChainBlocks(State)) = MAX_NODES
    /\ \E b \in last.pre.live : b.offset > NewBlock.offset

(* ------------------------------------------------------------------ *)
(* C11: one caller that keeps a freed address and passes it again      *)
(* ------------------------------------------------------------------ *)

\* requested sizes of this caller
StaleSizes == {1, USABLE_BYTES - 1, TOTAL_MEMORY}

\* pointers this caller passes to deallocate: the start of every live
\* block and the remembered address
StalePtrs == {g_mem_raw + b.offset : b \in live}
             \cup (IF stale.addr # NULL THEN {stale.addr} ELSE {})

\* allocate(size); an allocate that returns the remembered address marks it reissued
StaleAllocate(size) ==
    /\ Allocate(size)
    /\ stale' = [addr |-> stale.addr,
                 reissued |-> stale.reissued
                              \/ (stale.addr # NULL /\ last'.ret = stale.addr),
                 hit |-> "none"]
    /\ UNCHANGED thr

\* deallocate(ptr).  A call with the remembered address is recorded as a
\* repeated free, "clean" when no allocate has returned the address since
\* it was last freed; a call that frees a live block may make its address
\* the remembered one when none is remembered yet.
StaleDeallocate(ptr) ==
    /\ Deallocate(ptr)
    /\ \/ /\ stale.addr # NULL /\ ptr = stale.addr
          /\ stale' = [addr |-> stale.addr, reissued |-> FALSE,
                       hit |-> IF stale.reissued THEN "reissued" ELSE "clean"]
       \/ /\ ~(stale.addr # NULL /\ ptr = stale.addr)
          /\ stale' = [stale EXCEPT !.hit = "none"]
       \/ /\ stale.addr = NULL
          /\ \E b \in live : g_mem_raw + b.offset = ptr
          /\ stale' = [addr |-> ptr, reissued |-> FALSE, hit |-> "none"]
    /\ UNCHANGED thr

NextStale ==
    \/ \E size \in StaleSizes : StaleAllocate(size)
    \/ \E ptr \in StalePtrs : StaleDeallocate(ptr)

SpecStale == Init /\ [][NextStale]_vars

\* C11 as claimed: a deallocate of an address that was returned by
\* allocate and already passed to deallocate changes nothing and frees no
\* block, whatever calls came in between.
C11_DoubleFreeNoOpAlways ==
    stale.hit # "none" => NothingChanged

\* C11 amended: such a deallocate changes nothing and frees no block,
\* whatever calls came in between, unless an allocate in between returned
\* that address again.
C11_DoubleFreeNoOp ==
    stale.hit = "clean" => NothingChanged

\* the freed address was passed again while it lay inside a block that was
\* allocated in between
C11_Witness ==
    /\ stale.hit = "clean"
    /\ \E b \in live : Addr(b) < last.arg /\ last.arg < Addr(b) + b.size

(* ------------------------------------------------------------------ *)
(* C17: two threads calling allocate, with and without a lock          *)
(* ------------------------------------------------------------------ *)

\* the offset found by the loop of Case 3, or -1: the gap tests of
\* gap_scan without the placement
RECURSIVE gap_search(_, _, _)
gap_search(s, req, cur) ==
    IF cur = -1 THEN -1
    ELSE LET nxt == s.g_mem[cur].next
             gap_start == U32(s.g_mem[cur].offset + s.g_mem[cur].size)
             gap_end == IF nxt = -1 THEN USABLE_LIMIT ELSE s.g_mem[nxt].offset
         IN  IF gap_fits(gap_start, gap_end, req)
             THEN gap_start
             ELSE gap_search(s, req, nxt)

\* the offset chosen by Cases 1, 2 and 3, or -1: the tests of
\* allocate_tracked without the placement
search_tracked(s, req) ==
    IF s.head_index = -1
    THEN IF U32(USABLE_BASE + req) <= USABLE_LIMIT THEN USABLE_BASE ELSE -1
    ELSE IF s.g_mem[s.head_index].offset >= U32(USABLE_BASE + req)
         THEN USABLE_BASE
         ELSE gap_search(s, req, s.head_index)

\* allocate up to the point where a gap has been chosen: off is the
\* chosen offset, or -1 when the call has returned ret without choosing one
search(s, size) ==
    IF invalid_size(size) THEN [s |-> s, off |-> -1, ret |-> NULL]
    ELSE LET req == U32(size)
         IN  IF req = TOTAL_MEMORY
             THEN LET r == allocate_full(s)
                  IN  [s |-> r.s, off |-> -1, ret |-> r.ret]
             ELSE IF s.full_taken # 0 THEN [s |-> s, off |-> -1, ret |-> NULL]
             ELSE LET c == ensure_node_pool(s)
                  IN  IF c.node_pool = NULL
                      THEN [s |-> c, off |-> -1, ret |-> NULL]
                      ELSE [s |-> c, off |-> search_tracked(c, req),
                            ret |-> NULL]

\* requested sizes of the two threads
ThreadSizes == {0, 1, TOTAL_MEMORY}

\* no call is between its two phases
Quiet == \A t \in Threads : thr.call[t].pc = "idle"

\* a call of thread t returns ret for the request size
Return(t, size, ret) ==
    /\ live' = IF ret = NULL THEN live
               ELSE live \cup {[offset |-> ret - g_mem_raw, size |-> size]}
    /\ last' = [op |-> "allocate", arg |-> size, ret |-> ret, pre |-> Snapshot]

\* thread t enters allocate(size) and runs it up to the choice of a gap;
\* a call that returns before it chooses one ends here.  With the lock,
\* the call starts only when no other call holds it.
Search(t, size) ==
    /\ thr.call[t].pc = "idle"
    /\ thr.locking => thr.owner = 0
    /\ \E r \in {search(State, size)} :
           /\ Install(r.s)
           /\ IF r.off = -1
              THEN /\ Return(t, size, r.ret)
                   /\ UNCHANGED thr
              ELSE /\ thr' = [thr EXCEPT
                                 !.owner = IF thr.locking THEN t ELSE 0,
                                 !.call[t] = [pc |-> "insert", size |-> size,
                                              off |-> r.off]]
                   /\ UNCHANGED <<live, last>>
    /\ UNCHANGED stale

\* thread t takes a slot, records the block at the offset it chose and
\* returns; with the lock, it releases it
Insert(t) ==
    /\ thr.call[t].pc = "insert"
    /\ \E r \in {place(State, thr.call[t].off, U32(thr.call[t].size))} :
           /\ Install(r.s)
           /\ Return(t, thr.call[t].size, r.ret)
    /\ thr' = [thr EXCEPT !.owner = 0, !.call[t] = NoCall]
    /\ UNCHANGED stale

\* deallocate of a live block, called while no allocate is in progress
QuietDeallocate(ptr) ==
    /\ Quiet
    /\ Deallocate(ptr)
    /\ UNCHANGED <<stale, thr>>

InitThreads ==
    /\ InitAllocator
    /\ stale = NoStale
    /\ thr \in {AllIdle(TRUE), AllIdle(FALSE)}

NextThreads ==
    \/ \E t \in Threads : \E size \in ThreadSizes : Search(t, size)
    \/ \E t \in Threads : Insert(t)
    \/ \E ptr \in {g_mem_raw + b.offset : b \in live} : QuietDeallocate(ptr)

SpecThreads == InitThreads /\ [][NextThreads]_vars

\* an allocate call has just handed out a block that shares a byte with a
\* block that was live already
Overlap ==
    /\ WasAllocate /\ last.ret # NULL
    /\ \E b \in last.pre.live : ~Disjoint(NewBlock, b)

\* C17: when every allocate call runs under the lock, from its search to
\* its insert, no block handed out shares a byte with a live block, no two
\* live blocks share a byte, and the call returns what an uninterrupted
\* allocate returns.  (That overlapping blocks are reachable without the
\* lock is C17_Witness.)
C17_LockedNoOverlap ==
    thr.locking =>
        /\ ~Overlap
        /\ \A a \in live : \A b \in live : a # b => Disjoint(a, b)
        /\ (WasAllocate /\ Quiet) =>
               allocate(last.pre.state, last.arg) = [s |-> State, ret |-> last.ret]

\* without the lock, two calls chose the same gap and the second one to
\* insert was handed bytes of the block the first one got
C17_Witness ==
    /\ ~thr.locking
    /\ Overlap

====
